---- MODULE Spec2Model ----
(***************************************************************************)
(* Model of src/src/autotrain/project.py: the Project dataclass            *)
(* (__post_init__, create, create_local, approve) and the                  *)
(* AutoTrainProject dataclass (__post_init__, create, create_spaces).      *)
(*                                                                         *)
(* Python values are encoded as follows.  A string-typed Optional uses the *)
(* string None for Python's None.  An attribute that may be missing, or an *)
(* Optional of another type, is a sequence: <<>> for absent, <<v>> for v.  *)
(* An exception is a record [type, msg].                                   *)
(***************************************************************************)
EXTENDS Integers, Sequences, FiniteSets, TLC

\* ---- bounds of the model ----
MaxRecords == 2
MaxPolls == 4
MaxJobs == 3

\* ---- encoding helpers ----
None == "None"
Opt(S) == {<<>>} \cup {<<x>> : x \in S}
SeqsUpTo(S, n) == UNION {[1..k -> S] : k \in 0..n}
NoErr == [type |-> "none", msg |-> ""]
Exc(t, m) == [type |-> t, msg |-> m]

\* ---- the exceptions the code raises ----
ErrLogin == Exc("ValueError", "Please login using huggingface-cli login")
ErrJobParamsRequired == Exc("ValueError", "Job parameters are required when hub model is specified.")
ErrOnlyOneAutoTrain == Exc("ValueError", "Only one job parameter is allowed in AutoTrain mode.")
ErrNumModels == Exc("ValueError", "Please specify num_models in job_params when using AutoTrain model")
ErrIndex == Exc("IndexError", "list index out of range")
ErrInvalidTask == Exc("ValueError", "Invalid task selected.")
ErrInvalidLanguage == Exc("ValueError", "Invalid language. Please check supported languages in AutoTrain documentation.")
ErrNoMaxModels == Exc("AttributeError", "'Project' object has no attribute 'max_models'")
ErrExists(n) == Exc("ValueError", "Project with name " \o n \o " already exists.")
ErrBusy == Exc("ValueError", "Another training job is already running in this workspace.")
ErrOnlyOneLocal == Exc("ValueError", "Only one job parameter is allowed in spaces/local mode.")
ErrNotImplemented == Exc("NotImplementedError", "")
ErrTrainer == Exc("TrainerError", "raised by the trainer entry point")
ErrRemote == Exc("RemoteCallError", "raised by the HTTP transport")
ErrNoMarker == Exc("FileNotFoundError", "/tmp/training")

\* ---- the dataset collaborator's identity fields ----
Username == "user"
ProjectName == "proj"

\* ---- job-parameter records: dictionaries keyed by strings ----
Fld(k, o) == IF o = <<>> THEN <<>> ELSE k :> o[1]
RecOf(s, t, n) ==
  Fld("source_language", s) @@ Fld("target_language", t)
    @@ Fld("num_models", n) @@ ("learning_rate" :> "3e-5")
Records ==
  {RecOf(s, t, n) : s \in Opt({"EN", "xx"}), t \in Opt({"fr"}), n \in Opt({2})}

\* dict.pop(k) on a dictionary that has the key
Pop(r, k) == [x \in DOMAIN r \ {k} |-> r[x]]
Has(r, k) == k \in DOMAIN r

\* ---- imported tables ----
TASKS ==
  [text_binary_classification |-> 1, text_multi_class_classification |-> 2,
   text_entity_extraction |-> 4, lm_training |-> 9,
   image_binary_classification |-> 17, image_multi_class_classification |-> 18,
   dreambooth |-> 25]
TasksGet(t) == IF t \in DOMAIN TASKS THEN <<TASKS[t]>> ELSE <<>>
SUPPORTED_LANGUAGES == {"en", "fr", "unk", "fr2en"}

\* str.lower() on the parameter-choice strings of the model
Lower(s) == IF s = "AutoTrain" THEN "autotrain" ELSE s
\* str(x).strip().lower() on the language strings of the model
StripLower(s) ==
  CASE s = "EN" -> "en"
    [] s = "fr2EN" -> "fr2en"
    [] OTHER -> s

\* ---- input domains ----
Tokens == {None, "hf_tok"}
InputTasks == {"text_binary_classification", "dreambooth", "text_entity_extraction", "bogus"}
ParamChoices == {"autotrain", "AutoTrain", "manual"}
HubModels == {None, "", "bert"}
JobParamArgs == Opt(SeqsUpTo(Records, MaxRecords))
ProjectIds == {101, 102}
RespNames == {"proj", "taken"}
\* the process that owns the Project of the model, and another one in the same workspace
Procs == {"self", "other"}
Self == "self"

VARIABLES
  args,          \* constructor arguments of Project (dataset fields included)
  param_choice, hub_model, job_params, language, max_models,   \* Project fields
  pc, err, ret,  \* position of the caller, exception raised, value returned
  posted,        \* payloads sent to POST /projects/create, in order
  json_resp,     \* the response to the last of them, <<>> when there is none
  marker,        \* /tmp/training exists
  modelDirs,     \* directories below /tmp/model
  lpc, lpayload, lerr,   \* create_local, per process
  events,        \* side effects of create_local, in order
  apc, aerr,     \* approve: position, exception raised
  project_id,    \* approve: its argument
  is_data_processing_success,
  reqs,          \* approve: requests issued, in order
  polled,        \* approve: statuses the status endpoint returned, in order
  df,            \* AutoTrainProject: the job_params table, one record per row
  backend, num_jobs, job_params_json,   \* AutoTrainProject fields
  spc, serr,     \* AutoTrainProject: position, exception raised
  job_idx, call_idx,   \* create_spaces: row, and call within the row
  apiCalls       \* HfApi calls issued, in order

projectVars == <<args, param_choice, hub_model, job_params, language, max_models,
                 pc, err, ret, posted, json_resp>>
localVars == <<marker, modelDirs, lpc, lpayload, lerr, events>>
approveVars == <<apc, aerr, project_id, is_data_processing_success, reqs, polled>>
spacesVars == <<df, backend, num_jobs, job_params_json, spc, serr, job_idx,
                call_idx, apiCalls>>
vars == <<projectVars, localVars, approveVars, spacesVars>>

\* ---- Project.__post_init__ ----
\* variant: the empty string is kept as a hub model
HubModelNorm_KeepsEmpty(h) == h
HubModelNorm(h) == IF h # None THEN (IF h = "" THEN None ELSE h) ELSE h
JobParamsNorm(j) == IF j = <<>> THEN <<>> ELSE j[1]

\* variant: the composite language is built source-first
LanguageOf_Swapped(r) ==
  IF Has(r, "source_language") /\ ~Has(r, "target_language")
  THEN [language |-> r["source_language"], rec |-> Pop(r, "source_language")]
  ELSE IF Has(r, "source_language") /\ Has(r, "target_language")
  THEN [language |-> r["source_language"] \o "2" \o r["target_language"],
        rec |-> Pop(Pop(r, "source_language"), "target_language")]
  ELSE [language |-> "unk", rec |-> r]

\* the language branch, lines 152-162: the language and the first record after it
LanguageOf(r) ==
  IF Has(r, "source_language") /\ ~Has(r, "target_language")
  THEN [language |-> r["source_language"], rec |-> Pop(r, "source_language")]
  ELSE IF Has(r, "source_language") /\ Has(r, "target_language")
  THEN [language |-> r["target_language"] \o "2" \o r["source_language"],
        rec |-> Pop(Pop(r, "source_language"), "target_language")]
  ELSE [language |-> "unk", rec |-> r]

\* the model-count branch, lines 164-168, on the record the language branch left
MaxModelsOf(r) ==
  IF Has(r, "num_models")
  THEN [err |-> NoErr, max_models |-> <<r["num_models"]>>, rec |-> Pop(r, "num_models")]
  ELSE IF ~Has(r, "num_models") /\ Has(r, "source_language")
  THEN [err |-> ErrNumModels,
        max_models |-> <<>>, rec |-> r]
  ELSE [err |-> NoErr, max_models |-> <<>>, rec |-> r]

PostInitFail(e, pcl, hub, jp) ==
  [err |-> e, param_choice |-> pcl, hub_model |-> hub, job_params |-> jp,
   language |-> "unset", max_models |-> <<>>]

PostInit(a) ==
  LET pcl == Lower(a.param_choice)
      hub == HubModelNorm(a.hub_model)
      jp == JobParamsNorm(a.job_params)
  IN IF a.token = None
     THEN PostInitFail(ErrLogin, pcl, hub, jp)
     ELSE IF hub # None /\ Len(jp) = 0
     THEN PostInitFail(ErrJobParamsRequired, pcl, hub, jp)
     ELSE IF hub = None /\ Len(jp) > 1
     THEN PostInitFail(ErrOnlyOneAutoTrain, pcl, hub, jp)
     ELSE IF pcl = "autotrain"
     THEN IF Len(jp) = 0
          THEN PostInitFail(ErrIndex, pcl, hub, jp)
          ELSE LET l == LanguageOf(jp[1])
                   m == MaxModelsOf(l.rec)
               IN [err |-> m.err, param_choice |-> pcl, hub_model |-> hub,
                   job_params |-> [jp EXCEPT ![1] = m.rec],
                   language |-> l.language, max_models |-> m.max_models]
     ELSE [err |-> NoErr, param_choice |-> pcl, hub_model |-> hub, job_params |-> jp,
           language |-> "unk", max_models |-> <<Len(jp)>>]

Construct ==
  /\ pc = "new"
  /\ LET o == PostInit(args)
     IN /\ param_choice' = o.param_choice
        /\ hub_model' = o.hub_model
        /\ job_params' = o.job_params
        /\ language' = o.language
        /\ max_models' = o.max_models
        /\ err' = o.err
        /\ pc' = IF o.err = NoErr THEN "constructed" ELSE "construct_failed"
  /\ UNCHANGED <<args, ret, posted, json_resp, localVars, approveVars, spacesVars>>

\* ---- Project.create ----
Payload(task_id, lang) ==
  [username |-> Username, proj_name |-> ProjectName, task |-> task_id,
   config |-> [advanced |-> TRUE, autotrain |-> (param_choice = "autotrain"),
               language |-> lang, max_models |-> max_models[1],
               hub_model |-> hub_model, params |-> job_params]]

\* language as placed in the payload, lines 235-240
PayloadLanguage == IF hub_model # None THEN "unk" ELSE StripLower(language)

\* variant: the language is not checked against the supported set
CreateCheck_NoLanguageCheck ==
  IF TasksGet(args.task) = <<>> THEN ErrInvalidTask
  ELSE IF max_models = <<>> THEN ErrNoMaxModels
  ELSE NoErr

\* the exception create raises before it has a payload, or NoErr
CreateCheck ==
  IF TasksGet(args.task) = <<>> THEN ErrInvalidTask
  ELSE IF PayloadLanguage \notin SUPPORTED_LANGUAGES THEN ErrInvalidLanguage
  ELSE IF max_models = <<>> THEN ErrNoMaxModels
  ELSE NoErr

Responses == [proj_name : RespNames, id : ProjectIds, created : BOOLEAN]

CreateRaise(e) ==
  /\ pc' = "raised" /\ err' = e
  /\ UNCHANGED <<ret, posted, json_resp, lpc, lpayload>>

\* create(local=True), up to the call of create_local
CreateLocal ==
  /\ pc = "constructed"
  /\ IF CreateCheck # NoErr
     THEN CreateRaise(CreateCheck)
     ELSE /\ pc' = "create_local"
          /\ lpc' = [lpc EXCEPT ![Self] = "check_marker"]
          /\ lpayload' = [lpayload EXCEPT ![Self] = <<Payload(TasksGet(args.task)[1], PayloadLanguage)>>]
          /\ UNCHANGED <<err, ret, posted, json_resp>>
  /\ UNCHANGED <<args, param_choice, hub_model, job_params, language, max_models,
                 marker, modelDirs, lerr, events, approveVars, spacesVars>>

\* variant: the project id is returned whatever the response's created flag
CreateRemote_IgnoresCreated ==
  /\ pc = "constructed"
  /\ IF CreateCheck # NoErr
     THEN CreateRaise(CreateCheck)
     ELSE /\ posted' = Append(posted, Payload(TasksGet(args.task)[1], PayloadLanguage))
          /\ UNCHANGED <<lpc, lpayload>>
          /\ \/ /\ pc' = "raised" /\ err' = ErrRemote /\ UNCHANGED <<ret, json_resp>>
             \/ \E r \in Responses :
                  /\ json_resp' = <<r>>
                  /\ pc' = "returned" /\ ret' = <<r.id>> /\ UNCHANGED err
  /\ UNCHANGED <<args, param_choice, hub_model, job_params, language, max_models,
                 marker, modelDirs, lerr, events, approveVars, spacesVars>>

\* create(local=False): the remote job-creation call and its response
CreateRemote ==
  /\ pc = "constructed"
  /\ IF CreateCheck # NoErr
     THEN CreateRaise(CreateCheck)
     ELSE /\ posted' = Append(posted, Payload(TasksGet(args.task)[1], PayloadLanguage))
          /\ UNCHANGED <<lpc, lpayload>>
          /\ \/ /\ pc' = "raised" /\ err' = ErrRemote /\ UNCHANGED <<ret, json_resp>>
             \/ \E r \in Responses :
                  /\ json_resp' = <<r>>
                  /\ IF r.created = TRUE
                     THEN /\ pc' = "returned" /\ ret' = <<r.id>> /\ UNCHANGED err
                     ELSE /\ pc' = "raised" /\ err' = ErrExists(r.proj_name)
                          /\ UNCHANGED ret
  /\ UNCHANGED <<args, param_choice, hub_model, job_params, language, max_models,
                 marker, modelDirs, lerr, events, approveVars, spacesVars>>

\* ---- Project.create_local, one step per statement with an effect ----
LocalFrame == UNCHANGED <<projectVars, lpayload, approveVars, spacesVars>>
Goto(p, l) == lpc' = [lpc EXCEPT ![p] = l]
LRaise(p, e) == /\ lpc' = [lpc EXCEPT ![p] = "raised"]
                /\ lerr' = [lerr EXCEPT ![p] = e]
Emit(p, o) == events' = Append(events, [p |-> p, op |-> o])

\* variant: the marker is created by the step that finds it absent
LCheckMarker_TestAndSet(p) ==
  /\ lpc[p] = "check_marker"
  /\ IF marker
     THEN LRaise(p, ErrBusy) /\ UNCHANGED marker
     ELSE Goto(p, "check_params") /\ marker' = TRUE /\ UNCHANGED lerr
  /\ UNCHANGED <<modelDirs, events>>
  /\ LocalFrame

\* variant: the existence check of the marker is skipped
LCheckMarker_Skipped(p) ==
  /\ lpc[p] = "check_marker"
  /\ Goto(p, "check_params") /\ UNCHANGED lerr
  /\ UNCHANGED <<marker, modelDirs, events>>
  /\ LocalFrame

\* lines 180-181
LCheckMarker(p) ==
  /\ lpc[p] = "check_marker"
  /\ IF marker THEN LRaise(p, ErrBusy) ELSE Goto(p, "check_params") /\ UNCHANGED lerr
  /\ UNCHANGED <<marker, modelDirs, events>>
  /\ LocalFrame

\* variant: two parameter records are let through
LCheckParams_Late(p) ==
  /\ lpc[p] = "check_params"
  /\ IF Len(lpayload[p][1].config.params) > 2
     THEN LRaise(p, ErrOnlyOneLocal)
     ELSE Goto(p, "makedirs") /\ UNCHANGED lerr
  /\ UNCHANGED <<marker, modelDirs, events>>
  /\ LocalFrame

\* lines 183-184
LCheckParams(p) ==
  /\ lpc[p] = "check_params"
  /\ IF Len(lpayload[p][1].config.params) > 1
     THEN LRaise(p, ErrOnlyOneLocal)
     ELSE Goto(p, "makedirs") /\ UNCHANGED lerr
  /\ UNCHANGED <<marker, modelDirs, events>>
  /\ LocalFrame

\* lines 186-187
LMakeDirs(p) ==
  /\ lpc[p] = "makedirs"
  /\ modelDirs' = modelDirs \cup {lpayload[p][1].proj_name}
  /\ Emit(p, "makedirs")
  /\ Goto(p, "tracker")
  /\ UNCHANGED <<marker, lerr>>
  /\ LocalFrame

\* lines 189-190
LStartTracker(p) ==
  /\ lpc[p] = "tracker"
  /\ Emit(p, "tracker_start")
  /\ Goto(p, "write_marker")
  /\ UNCHANGED <<marker, modelDirs, lerr>>
  /\ LocalFrame

\* lines 192-193
LWriteMarker(p) ==
  /\ lpc[p] = "write_marker"
  /\ marker' = TRUE
  /\ Emit(p, "write_marker")
  /\ Goto(p, "dispatch")
  /\ UNCHANGED <<modelDirs, lerr>>
  /\ LocalFrame

\* variant: task id 9 goes to the text-classification trainer
TrainerOf_LmAsText(t) ==
  IF t \in {1, 2, 9} THEN <<"train_text_classification">>
  ELSE IF t \in {17, 18} THEN <<"train_image_classification">>
  ELSE IF t = 25 THEN <<"train_dreambooth">>
  ELSE <<>>

\* the trainer entry point lines 195-224 select for a task id, <<>> for none
TrainerOf(t) ==
  IF t \in {1, 2} THEN <<"train_text_classification">>
  ELSE IF t \in {17, 18} THEN <<"train_image_classification">>
  ELSE IF t = 25 THEN <<"train_dreambooth">>
  ELSE IF t = 9 THEN <<"train_lm">>
  ELSE <<>>
Trainers == {"train_text_classification", "train_image_classification",
             "train_dreambooth", "train_lm"}

\* lines 195-224: the call of the selected trainer, or NotImplementedError
LDispatch(p) ==
  /\ lpc[p] = "dispatch"
  /\ LET t == TrainerOf(lpayload[p][1].task)
     IN IF t = <<>>
        THEN LRaise(p, ErrNotImplemented) /\ UNCHANGED events
        ELSE Goto(p, "training") /\ Emit(p, t[1]) /\ UNCHANGED lerr
  /\ UNCHANGED <<marker, modelDirs>>
  /\ LocalFrame

\* the trainer entry point returns
LTrainerReturns(p) ==
  /\ lpc[p] = "training"
  /\ Goto(p, "remove_marker")
  /\ UNCHANGED <<marker, modelDirs, lerr, events>>
  /\ LocalFrame

\* the trainer entry point raises; the exception leaves create_local
LTrainerRaises(p) ==
  /\ lpc[p] = "training"
  /\ LRaise(p, ErrTrainer)
  /\ UNCHANGED <<marker, modelDirs, events>>
  /\ LocalFrame

\* line 227
LRemoveMarker(p) ==
  /\ lpc[p] = "remove_marker"
  /\ IF marker
     THEN /\ marker' = FALSE /\ Emit(p, "remove_marker")
          /\ Goto(p, "returned") /\ UNCHANGED lerr
     ELSE LRaise(p, ErrNoMarker) /\ UNCHANGED <<marker, events>>
  /\ UNCHANGED modelDirs
  /\ LocalFrame

\* line 261: create returns or raises what create_local did
CreateLocalExit ==
  /\ pc = "create_local"
  /\ lpc[Self] \in {"returned", "raised"}
  /\ pc' = lpc[Self]
  /\ err' = lerr[Self]
  /\ UNCHANGED <<args, param_choice, hub_model, job_params, language, max_models,
                 ret, posted, json_resp, localVars, approveVars, spacesVars>>

\* ---- Project.approve ----
Statuses == {2, 3, 4}
ProcessingPath(id) == "/projects/" \o ToString(id) \o "/data/start_processing"
StatusPath(id) == "/projects/" \o ToString(id)
TrainingPath(id) == "/projects/" \o ToString(id) \o "/start_training"
Request(m, path) == [method |-> m, path |-> path, token |-> args.token]

ApproveFrame == UNCHANGED <<projectVars, localVars, spacesVars, project_id>>
ARaise == apc' = "raised" /\ aerr' = ErrRemote

\* variant: the poll loop is skipped
AStartProcessing_SkipsPolling ==
  /\ apc = "start_processing"
  /\ reqs' = Append(reqs, Request("POST", ProcessingPath(project_id)))
  /\ \/ ARaise /\ UNCHANGED is_data_processing_success
     \/ apc' = "start_training" /\ is_data_processing_success' = TRUE /\ UNCHANGED aerr
  /\ UNCHANGED polled
  /\ ApproveFrame

\* lines 275-281: the "start data processing" request
AStartProcessing ==
  /\ apc = "start_processing"
  /\ reqs' = Append(reqs, Request("POST", ProcessingPath(project_id)))
  /\ \/ ARaise /\ UNCHANGED is_data_processing_success
     \/ apc' = "poll" /\ is_data_processing_success' = FALSE /\ UNCHANGED aerr
  /\ UNCHANGED polled
  /\ ApproveFrame

\* variant: any status other than 2 ends the poll loop
APoll_AnyOther ==
  /\ apc = "poll"
  /\ is_data_processing_success # TRUE
  /\ Len(polled) < MaxPolls
  /\ reqs' = Append(reqs, Request("GET", StatusPath(project_id)))
  /\ \/ ARaise /\ UNCHANGED <<is_data_processing_success, polled>>
     \/ \E status \in Statuses :
          /\ polled' = Append(polled, status)
          /\ is_data_processing_success' =
               IF status # 2 THEN TRUE ELSE is_data_processing_success
          /\ apc' = IF status # 2 THEN "start_training" ELSE "poll"
          /\ UNCHANGED aerr
  /\ ApproveFrame

\* variant: the poll loop gives up after two polls
APoll_GivesUp ==
  /\ apc = "poll"
  /\ is_data_processing_success # TRUE
  /\ Len(polled) < MaxPolls
  /\ reqs' = Append(reqs, Request("GET", StatusPath(project_id)))
  /\ \/ ARaise /\ UNCHANGED <<is_data_processing_success, polled>>
     \/ \E status \in Statuses :
          /\ polled' = Append(polled, status)
          /\ is_data_processing_success' =
               IF status = 3 \/ Len(polled) >= 1 THEN TRUE ELSE is_data_processing_success
          /\ apc' = IF status = 3 \/ Len(polled) >= 1 THEN "start_training" ELSE "poll"
          /\ UNCHANGED aerr
  /\ ApproveFrame

\* lines 282-292: one iteration of the poll loop
APoll ==
  /\ apc = "poll"
  /\ is_data_processing_success # TRUE
  /\ Len(polled) < MaxPolls
  /\ reqs' = Append(reqs, Request("GET", StatusPath(project_id)))
  /\ \/ ARaise /\ UNCHANGED <<is_data_processing_success, polled>>
     \/ \E status \in Statuses :
          /\ polled' = Append(polled, status)
          /\ is_data_processing_success' =
               IF status = 3 THEN TRUE ELSE is_data_processing_success
          /\ apc' = IF status = 3 THEN "start_training" ELSE "poll"
          /\ UNCHANGED aerr
  /\ ApproveFrame

\* variant: the "start training" request is sent again when it fails
AStartTraining_Retries ==
  /\ apc = "start_training"
  /\ reqs' = Append(reqs, Request("POST", TrainingPath(project_id)))
  /\ \/ UNCHANGED <<apc, aerr>>
     \/ apc' = "returned" /\ UNCHANGED aerr
  /\ UNCHANGED <<is_data_processing_success, polled>>
  /\ ApproveFrame

\* lines 294-299: the "start training" request
AStartTraining ==
  /\ apc = "start_training"
  /\ reqs' = Append(reqs, Request("POST", TrainingPath(project_id)))
  /\ \/ ARaise
     \/ apc' = "returned" /\ UNCHANGED aerr
  /\ UNCHANGED <<is_data_processing_success, polled>>
  /\ ApproveFrame

\* ---- AutoTrainProject ----
spaces_backends ==
  ("A10G Large" :> "a10g-large") @@ ("A10G Small" :> "a10g-small")
    @@ ("A100 Large" :> "a100-large") @@ ("T4 Medium" :> "t4-medium")
    @@ ("T4 Small" :> "t4-small")
Backends == DOMAIN spaces_backends \cup {"AutoTrain", "Local", "CPU"}
LearningRates == {"1e-4", "3e-5"}
Row(b, lr) == [backend |-> b, model_choice |-> "bert", param_choice |-> "manual",
               learning_rate |-> lr]
Tables ==
  UNION {{[i \in 1..n |-> Row(b, lrs[i])] : lrs \in [1..n -> LearningRates]} :
           b \in Backends, n \in 0..MaxJobs}
SpacesToken == "hf_tok"
SpacesTask == "text_binary_classification"
ErrKey == Exc("KeyError", "0")
ErrHub == Exc("HfHubHTTPError", "raised by HfApi")

\* DataFrame.to_json(orient="records"), as the list json.loads gives back, each
\* row serialized again by json.dumps
RowJson(r) ==
  "{backend: " \o r.backend \o ", model_choice: " \o r.model_choice
    \o ", param_choice: " \o r.param_choice
    \o ", learning_rate: " \o r.learning_rate \o "}"
ToJson(t) == [i \in 1..Len(t) |-> RowJson(t[i])]

DataPath == Username \o "/autotrain-data-" \o ProjectName
RepoId(i) == Username \o "/autotrain-" \o ProjectName \o "-" \o ToString(i)
Readme(i) == "title: " \o ProjectName \o "-" \o ToString(i) \o " sdk: docker"
Dockerfile == "FROM huggingface/autotrain-advanced:latest CMD autotrain api --port 7860"

\* the keyword arguments a call passes besides repo_id and its key and value
CallOptions(o) ==
  CASE o = "create_repo" -> "repo_type=space space_sdk=docker private=True"
    [] o = "upload_file" -> "repo_type=space"
    [] OTHER -> ""
Call(o, i, k, v) ==
  [op |-> o, repo_id |-> RepoId(i), key |-> k, value |-> v, options |-> CallOptions(o)]

\* variant: every row's PARAMS secret holds the first row's parameters
SpaceCalls_FirstRowParams(i) ==
  << Call("create_repo", i, "space_hardware", spaces_backends[backend]),
     Call("add_space_secret", i, "HF_TOKEN", SpacesToken),
     Call("add_space_secret", i, "AUTOTRAIN_USERNAME", Username),
     Call("add_space_secret", i, "PROJECT_NAME", ProjectName),
     Call("add_space_secret", i, "PARAMS", job_params_json[1]),
     Call("add_space_secret", i, "DATA_PATH", DataPath),
     Call("add_space_secret", i, "TASK_ID", ToString(TASKS[SpacesTask])),
     Call("upload_file", i, "README.md", Readme(i)),
     Call("upload_file", i, "Dockerfile", Dockerfile) >>

\* lines 61-103: the HfApi calls of row i (counted from 0), in order
SpaceCalls(i) ==
  << Call("create_repo", i, "space_hardware", spaces_backends[backend]),
     Call("add_space_secret", i, "HF_TOKEN", SpacesToken),
     Call("add_space_secret", i, "AUTOTRAIN_USERNAME", Username),
     Call("add_space_secret", i, "PROJECT_NAME", ProjectName),
     Call("add_space_secret", i, "PARAMS", job_params_json[i + 1]),
     Call("add_space_secret", i, "DATA_PATH", DataPath),
     Call("add_space_secret", i, "TASK_ID", ToString(TASKS[SpacesTask])),
     Call("upload_file", i, "README.md", Readme(i)),
     Call("upload_file", i, "Dockerfile", Dockerfile) >>

SpacesFrame == UNCHANGED <<projectVars, localVars, approveVars, df>>

\* AutoTrainProject.__post_init__, lines 28-56
SConstruct ==
  /\ spc = "new"
  /\ IF Len(df) = 0
     THEN /\ spc' = "construct_failed" /\ serr' = ErrKey
          /\ UNCHANGED <<backend, num_jobs, job_params_json>>
     ELSE /\ backend' = df[1].backend
          /\ num_jobs' = Len(df)
          /\ job_params_json' = ToJson(df)
          /\ spc' = "constructed" /\ UNCHANGED serr
  /\ UNCHANGED <<job_idx, call_idx, apiCalls>>
  /\ SpacesFrame

\* variant: the named backend Local is not rejected
SCreate_LocalAccepted ==
  /\ spc = "constructed"
  /\ IF backend = "AutoTrain" THEN spc' = "raised" /\ serr' = ErrNotImplemented
     ELSE IF backend \in DOMAIN spaces_backends
          THEN spc' = (IF num_jobs > 0 THEN "create_spaces" ELSE "returned")
               /\ UNCHANGED serr
     ELSE spc' = "returned" /\ UNCHANGED serr
  /\ job_idx' = 0 /\ call_idx' = 1
  /\ UNCHANGED <<backend, num_jobs, job_params_json, apiCalls>>
  /\ SpacesFrame

\* AutoTrainProject.create, lines 105-111, up to the call of create_spaces
SCreate ==
  /\ spc = "constructed"
  /\ IF backend = "AutoTrain" THEN spc' = "raised" /\ serr' = ErrNotImplemented
     ELSE IF backend = "Local" THEN spc' = "raised" /\ serr' = ErrNotImplemented
     ELSE IF backend \in DOMAIN spaces_backends
          THEN spc' = (IF num_jobs > 0 THEN "create_spaces" ELSE "returned")
               /\ UNCHANGED serr
     ELSE spc' = "returned" /\ UNCHANGED serr
  /\ job_idx' = 0 /\ call_idx' = 1
  /\ UNCHANGED <<backend, num_jobs, job_params_json, apiCalls>>
  /\ SpacesFrame

\* variant: the loop over the rows stops one row early
SSpaceCall_ShortLoop ==
  /\ spc = "create_spaces"
  /\ apiCalls' = Append(apiCalls, SpaceCalls(job_idx)[call_idx])
  /\ \/ spc' = "raised" /\ serr' = ErrHub /\ UNCHANGED <<job_idx, call_idx>>
     \/ /\ UNCHANGED serr
        /\ IF call_idx < Len(SpaceCalls(job_idx))
           THEN call_idx' = call_idx + 1 /\ UNCHANGED <<job_idx, spc>>
           ELSE /\ call_idx' = 1
                /\ job_idx' = job_idx + 1
                /\ spc' = IF job_idx + 1 < num_jobs - 1 THEN "create_spaces" ELSE "returned"
  /\ UNCHANGED <<backend, num_jobs, job_params_json>>
  /\ SpacesFrame

\* create_spaces, lines 60-103: the next HfApi call of the loop
SSpaceCall ==
  /\ spc = "create_spaces"
  /\ apiCalls' = Append(apiCalls, SpaceCalls(job_idx)[call_idx])
  /\ \/ spc' = "raised" /\ serr' = ErrHub /\ UNCHANGED <<job_idx, call_idx>>
     \/ /\ UNCHANGED serr
        /\ IF call_idx < Len(SpaceCalls(job_idx))
           THEN call_idx' = call_idx + 1 /\ UNCHANGED <<job_idx, spc>>
           ELSE /\ call_idx' = 1
                /\ job_idx' = job_idx + 1
                /\ spc' = IF job_idx + 1 < num_jobs THEN "create_spaces" ELSE "returned"
  /\ UNCHANGED <<backend, num_jobs, job_params_json>>
  /\ SpacesFrame

\* ---- the state of each part before it is used ----
ProjectNew ==
  /\ param_choice = "unset" /\ hub_model = None /\ job_params = <<>>
  /\ language = "unset" /\ max_models = <<>>
  /\ pc = "new" /\ err = NoErr /\ ret = <<>>
  /\ posted = <<>> /\ json_resp = <<>>
LocalIdle ==
  /\ modelDirs = {}
  /\ lpc = [p \in Procs |-> "idle"]
  /\ lpayload = [p \in Procs |-> <<>>]
  /\ lerr = [p \in Procs |-> NoErr]
  /\ events = <<>>
ApproveIdle ==
  /\ apc = "idle" /\ aerr = NoErr /\ project_id = 0
  /\ is_data_processing_success = FALSE
  /\ reqs = <<>> /\ polled = <<>>
SpacesIdle ==
  /\ df = <<>> /\ backend = "unset" /\ num_jobs = 0 /\ job_params_json = <<>>
  /\ spc = "idle" /\ serr = NoErr /\ job_idx = 0 /\ call_idx = 0
  /\ apiCalls = <<>>

Init ==
  /\ args \in [token : Tokens, task : InputTasks, param_choice : ParamChoices,
               hub_model : HubModels, job_params : JobParamArgs]
  /\ ProjectNew
  /\ marker \in BOOLEAN
  /\ LocalIdle
  /\ ApproveIdle
  /\ SpacesIdle

Next ==
  \/ Construct
  \/ CreateLocal
  \/ CreateRemote
  \/ LCheckMarker(Self)
  \/ LCheckParams(Self)
  \/ LMakeDirs(Self)
  \/ LStartTracker(Self)
  \/ LWriteMarker(Self)
  \/ LDispatch(Self)
  \/ LTrainerReturns(Self)
  \/ LTrainerRaises(Self)
  \/ LRemoveMarker(Self)
  \/ CreateLocalExit

Spec == Init /\ [][Next]_vars
\* ---- approve, called with the id a create returned ----
ApproveArgs ==
  [token |-> "hf_tok", task |-> "text_binary_classification", param_choice |-> "manual",
   hub_model |-> "bert", job_params |-> <<<<RecOf(<<>>, <<>>, <<>>)>>>>]

InitApprove ==
  /\ args = ApproveArgs
  /\ LET o == PostInit(args)
     IN /\ param_choice = o.param_choice /\ hub_model = o.hub_model
        /\ job_params = o.job_params /\ language = o.language
        /\ max_models = o.max_models /\ err = o.err
  /\ pc = "returned"
  /\ \E id \in ProjectIds : ret = <<id>> /\ project_id = id
  /\ posted = <<Payload(TasksGet(args.task)[1], PayloadLanguage)>>
  /\ \E n \in RespNames : json_resp = <<[proj_name |-> n, id |-> project_id, created |-> TRUE]>>
  /\ marker \in BOOLEAN
  /\ LocalIdle
  /\ apc = "start_processing" /\ aerr = NoErr
  /\ is_data_processing_success = FALSE
  /\ reqs = <<>> /\ polled = <<>>
  /\ SpacesIdle

NextApprove ==
  \/ AStartProcessing
  \/ APoll
  \/ AStartTraining

SpecApprove == InitApprove /\ [][NextApprove]_vars

\* ---- AutoTrainProject: construction and create ----
InitSpaces ==
  /\ args = ApproveArgs
  /\ ProjectNew
  /\ marker = FALSE
  /\ LocalIdle
  /\ ApproveIdle
  /\ df \in Tables
  /\ backend = "unset" /\ num_jobs = 0 /\ job_params_json = <<>>
  /\ spc = "new" /\ serr = NoErr /\ job_idx = 0 /\ call_idx = 0
  /\ apiCalls = <<>>

NextSpaces ==
  \/ SConstruct
  \/ SCreate
  \/ SSpaceCall

SpecSpaces == InitSpaces /\ [][NextSpaces]_vars

\* ---- the remote path: create, then approve with the id it returned ----
\* line 273: approve is entered with the project id create returned
ApproveCall ==
  /\ pc = "returned" /\ apc = "idle"
  /\ apc' = "start_processing"
  /\ project_id' = ret[1]
  /\ UNCHANGED <<projectVars, localVars, spacesVars, aerr,
                 is_data_processing_success, reqs, polled>>

InitRemote ==
  /\ args = ApproveArgs
  /\ LET o == PostInit(args)
     IN /\ param_choice = o.param_choice /\ hub_model = o.hub_model
        /\ job_params = o.job_params /\ language = o.language
        /\ max_models = o.max_models /\ err = o.err
  /\ pc = "constructed" /\ ret = <<>>
  /\ posted = <<>> /\ json_resp = <<>>
  /\ marker = FALSE
  /\ LocalIdle
  /\ ApproveIdle
  /\ SpacesIdle

NextRemote ==
  \/ CreateRemote
  \/ ApproveCall
  \/ AStartProcessing
  \/ APoll
  \/ AStartTraining

SpecRemote == InitRemote /\ [][NextRemote]_vars

\* approve under the assumption that a step that can be taken is taken
SpecApproveFair == SpecApprove /\ WF_vars(NextApprove)

\* ---- create_local, called directly with a payload ----
LocalTaskIds == {1, 2, 4, 9, 17, 18, 25}
LocalNames == {"proj", "proj2"}
PlainRecord == RecOf(<<>>, <<>>, <<>>)
LocalPayloads ==
  {[username |-> Username, proj_name |-> n, task |-> t,
    config |-> [advanced |-> TRUE, autotrain |-> FALSE, language |-> "unk",
                max_models |-> k, hub_model |-> "bert",
                params |-> [i \in 1..k |-> PlainRecord]]] :
     n \in LocalNames, t \in LocalTaskIds, k \in 0..MaxRecords}

\* a constructed Project on which create has not been called
ProjectConstructed ==
  /\ args = ApproveArgs
  /\ LET o == PostInit(args)
     IN /\ param_choice = o.param_choice /\ hub_model = o.hub_model
        /\ job_params = o.job_params /\ language = o.language
        /\ max_models = o.max_models /\ err = o.err
  /\ pc = "constructed" /\ ret = <<>>
  /\ posted = <<>> /\ json_resp = <<>>

InitLocal ==
  /\ ProjectConstructed
  /\ marker \in BOOLEAN
  /\ modelDirs = {}
  /\ lpc = [p \in Procs |-> IF p = Self THEN "check_marker" ELSE "idle"]
  /\ \E x \in LocalPayloads :
       lpayload = [p \in Procs |-> IF p = Self THEN <<x>> ELSE <<>>]
  /\ lerr = [p \in Procs |-> NoErr]
  /\ events = <<>>
  /\ ApproveIdle
  /\ SpacesIdle

LocalStep(p) ==
  \/ LCheckMarker(p)
  \/ LCheckParams(p)
  \/ LMakeDirs(p)
  \/ LStartTracker(p)
  \/ LWriteMarker(p)
  \/ LDispatch(p)
  \/ LTrainerReturns(p)
  \/ LTrainerRaises(p)
  \/ LRemoveMarker(p)

NextLocal == LocalStep(Self)

SpecLocal == InitLocal /\ [][NextLocal]_vars

\* ---- two processes call create_local in the same workspace ----
RaceTaskIds == {1, 4, 25}
RacePayloads == {x \in LocalPayloads : x.task \in RaceTaskIds /\ x.proj_name = ProjectName}

InitRace ==
  /\ ProjectConstructed
  /\ marker = FALSE
  /\ modelDirs = {}
  /\ lpc = [p \in Procs |-> "check_marker"]
  /\ lpayload \in [Procs -> {<<x>> : x \in RacePayloads}]
  /\ lerr = [p \in Procs |-> NoErr]
  /\ events = <<>>
  /\ ApproveIdle
  /\ SpacesIdle

NextRace == \E p \in Procs : LocalStep(p)

SpecRace == InitRace /\ [][NextRace]_vars

(***************************************************************************)
(* Properties                                                              *)
(***************************************************************************)
\* the job-parameter list as passed to the constructor
ArgRecords == JobParamsNorm(args.job_params)
Constructed == pc \notin {"new", "construct_failed"}
StrippedKeys == {"source_language", "target_language", "num_models"}
LocalOps(p) == {i \in DOMAIN events : events[i].p = p}

\* C1: if create_local wrote the lock marker and the selected trainer entry
\* point raised, the lock marker is absent once create_local has raised.
C1_MarkerAbsentAfterTrainerRaise ==
  (lpc[Self] = "raised" /\ lerr[Self] = ErrTrainer) => ~marker

\* C2: create_local invoked while the lock marker exists raises the "another
\* training job" ValueError at once: that step creates no directory, starts no
\* tracker, invokes no trainer and leaves the marker in place, and a run that
\* failed this way has had no effect at all.
C2_BusyRejected ==
  /\ [][(lpc[Self] = "check_marker" /\ marker)
          => /\ lpc'[Self] = "raised" /\ lerr'[Self] = ErrBusy
             /\ UNCHANGED <<marker, modelDirs, events, posted>>]_vars
  /\ [](lerr[Self] = ErrBusy
          => marker /\ modelDirs = {} /\ LocalOps(Self) = {} /\ posted = <<>>)
C2_Witness == pc = "raised" /\ err = ErrBusy /\ marker

\* C3: when the polled statuses are k values other than 3 followed by a 3,
\* approve has made exactly k+1 status polls, and the one "start training"
\* request it issues comes after all of them; no "start training" request is
\* issued before a poll returned 3.
TrainingReqs == {i \in DOMAIN reqs : reqs[i].path = TrainingPath(project_id)}
PollReqs == {i \in DOMAIN reqs : reqs[i].method = "GET"}
EndsInThree == Len(polled) >= 1 /\ polled[Len(polled)] = 3
C3_OneStartAfterFirstThree ==
  /\ Cardinality(TrainingReqs) <= 1
  /\ \A j \in 1..(Len(polled) - 1) : polled[j] # 3
  /\ \A i \in TrainingReqs :
       /\ EndsInThree
       /\ i = Len(reqs)
       /\ \A j \in PollReqs : j < i
  /\ EndsInThree =>
       /\ Cardinality(PollReqs) = Len(polled)
       /\ apc \in {"start_training", "returned", "raised"}
       /\ (apc # "start_training" => Cardinality(TrainingReqs) = 1)
  /\ ~EndsInThree => apc # "returned"
C3_Witness ==
  /\ polled = <<2, 2, 2, 3>> /\ apc = "returned"
  /\ Cardinality(PollReqs) = 4 /\ TrainingReqs = {6}

\* C4: with one of the five accelerator backends in the first row of a table
\* of n rows, create makes one container creation per row, for the row indices
\* 0..n-1 each exactly once when it returns and at most once before, and never
\* posts to the remote job-creation endpoint.
RepoCreations(i) ==
  {j \in DOMAIN apiCalls :
     apiCalls[j].op = "create_repo" /\ apiCalls[j].repo_id = RepoId(i)}
AllRepoCreations == {j \in DOMAIN apiCalls : apiCalls[j].op = "create_repo"}
C4_OneContainerPerRow ==
  (Len(df) > 0 /\ df[1].backend \in DOMAIN spaces_backends) =>
    /\ \A i \in 0..(Len(df) - 1) :
         /\ Cardinality(RepoCreations(i)) <= 1
         /\ (spc = "returned" => Cardinality(RepoCreations(i)) = 1)
    /\ AllRepoCreations = UNION {RepoCreations(i) : i \in 0..(Len(df) - 1)}
    /\ (spc = "returned" => Cardinality(AllRepoCreations) = Len(df))
    /\ ~(spc = "raised" /\ serr = ErrNotImplemented)
    /\ posted = <<>>
C4_Witness ==
  /\ spc = "returned" /\ backend = "T4 Medium" /\ Len(df) = 3
  /\ Cardinality(AllRepoCreations) = 3

\* C5: on the remote path, a response with created = true makes create return
\* the response's project id; a response with created = false makes it raise
\* the "already exists" ValueError naming the response's project, and return
\* nothing.
C5_CreatedDecides ==
  json_resp # <<>> =>
    IF json_resp[1].created
    THEN pc = "returned" /\ ret = <<json_resp[1].id>> /\ err = NoErr
    ELSE /\ pc = "raised" /\ ret = <<>>
         /\ err.type = "ValueError"
         /\ err.msg = "Project with name " \o json_resp[1].proj_name \o " already exists."
C5_Witness ==
  /\ json_resp # <<>> /\ ~json_resp[1].created /\ json_resp[1].proj_name = "taken"
  /\ pc = "raised" /\ Len(posted) = 1

\* C6: in AutoTrain mode, a first record with source_language and without
\* num_models makes the constructor fail.
C6_NumModelsRequired ==
  (/\ pc # "new"
   /\ Lower(args.param_choice) = "autotrain"
   /\ Len(ArgRecords) >= 1
   /\ Has(ArgRecords[1], "source_language")
   /\ ~Has(ArgRecords[1], "num_models"))
  => pc = "construct_failed"

\* C7: in AutoTrain mode, after a successful construction: a first record with
\* source_language X and no target_language gives language X, and with
\* num_models N also max_models N, the record keeping neither key; with
\* source_language X and target_language Y the language is Y2X and the record
\* keeps neither language key; without source_language the language is unk.
C7_LanguageDerivation ==
  (Constructed /\ param_choice = "autotrain") =>
    LET r == ArgRecords[1]
        out == job_params[1]
    IN /\ (Has(r, "source_language") /\ ~Has(r, "target_language")) =>
            /\ language = r["source_language"]
            /\ ~Has(out, "source_language")
            /\ Has(r, "num_models") =>
                 max_models = <<r["num_models"]>> /\ ~Has(out, "num_models")
       /\ (Has(r, "source_language") /\ Has(r, "target_language")) =>
            /\ language = r["target_language"] \o "2" \o r["source_language"]
            /\ (r["source_language"] = "EN" /\ r["target_language"] = "fr"
                  => language = "fr2EN")
            /\ ~Has(out, "source_language") /\ ~Has(out, "target_language")
       /\ ~Has(r, "source_language") => language = "unk"
C7_Witness ==
  /\ pc = "constructed" /\ param_choice = "autotrain"
  /\ Has(ArgRecords[1], "source_language") /\ Has(ArgRecords[1], "target_language")
  /\ Has(ArgRecords[1], "num_models")
  /\ language = "fr2EN" /\ max_models = <<2>>
  /\ DOMAIN job_params[1] = {"learning_rate"}

\* C8: the constructor raises ValueError when a hub model is given and there
\* are no records, and when no hub model is given (None or the empty string)
\* and there is more than one record; so a constructed Project with a hub
\* model has at least one record and one without has at most one.
HubGiven == args.hub_model \notin {None, ""}
C8_JobCount ==
  /\ (pc # "new" /\ HubGiven /\ Len(ArgRecords) = 0) =>
       /\ pc = "construct_failed" /\ err.type = "ValueError"
       /\ (args.token # None => err = ErrJobParamsRequired)
  /\ (pc # "new" /\ ~HubGiven /\ Len(ArgRecords) > 1) =>
       /\ pc = "construct_failed" /\ err.type = "ValueError"
       /\ (args.token # None => err = ErrOnlyOneAutoTrain)
  /\ Constructed =>
       /\ (hub_model # None => Len(job_params) >= 1)
       /\ (hub_model = None => Len(job_params) <= 1)
       /\ hub_model # ""
C8_Witness ==
  /\ pc = "construct_failed" /\ err = ErrOnlyOneAutoTrain
  /\ args.hub_model = "" /\ Len(ArgRecords) = 2

\* C9: no record in the params of a payload handed to a backend (posted to the
\* remote job-creation endpoint or passed to create_local) has one of the keys
\* source_language, target_language, num_models.
CleanParams(payload) ==
  \A j \in DOMAIN payload.config.params :
    DOMAIN payload.config.params[j] \cap StrippedKeys = {}
C9_NoJobLevelKeysDownstream ==
  /\ \A i \in DOMAIN posted : CleanParams(posted[i])
  /\ \A p \in Procs : lpayload[p] # <<>> => CleanParams(lpayload[p][1])

\* C10: with the backend AutoTrain or Local in the first row, create raises
\* NotImplementedError, having created no container, posted nothing to the
\* remote job-creation endpoint and run nothing locally.
C10_NamedBackendsUnsupported ==
  (Len(df) > 0 /\ df[1].backend \in {"AutoTrain", "Local"}) =>
    /\ spc \in {"new", "constructed", "raised"}
    /\ (spc = "raised" => serr = ErrNotImplemented)
    /\ apiCalls = <<>> /\ posted = <<>> /\ events = <<>>
    /\ \A p \in Procs : lpc[p] = "idle"
C10_Witness ==
  /\ spc = "raised" /\ serr = ErrNotImplemented /\ backend = "Local"
  /\ num_jobs = 2

\* ---- create_local ----
LocalPayload == lpayload[Self][1]
DispatchSet == {1, 2, 17, 18, 25, 9}
\* the marker check of lines 180-181 was passed
PassedMarkerCheck == lpc[Self] \notin {"idle", "check_marker"} /\ lerr[Self] # ErrBusy
Finished(p) == lpc[p] \in {"returned", "raised"}
TrainerCalls(p) == {i \in DOMAIN events : events[i].p = p /\ events[i].op \in Trainers}

\* C11: create_local called with one record and a task id outside
\* {1, 2, 17, 18, 25, 9} raises NotImplementedError, invokes no trainer, and
\* the lock marker is absent once it has raised.
C11_UnsupportedTaskReleasesMarker ==
  (/\ PassedMarkerCheck /\ Finished(Self)
   /\ Len(LocalPayload.config.params) = 1
   /\ LocalPayload.task \notin DispatchSet)
  => /\ lerr[Self] = ErrNotImplemented
     /\ TrainerCalls(Self) = {}
     /\ ~marker

\* C12: create_local called with no lock marker and more than one parameter
\* record raises the "only one job parameter" ValueError at its second
\* statement, having written no marker, created no directory, started no
\* tracker and invoked no trainer.
C12_ManyRecordsRejected ==
  /\ [][(lpc[Self] = "check_params" /\ Len(LocalPayload.config.params) > 1)
          => /\ lpc'[Self] = "raised" /\ lerr'[Self] = ErrOnlyOneLocal
             /\ UNCHANGED <<marker, modelDirs, events>>]_vars
  /\ []((PassedMarkerCheck /\ Len(LocalPayload.config.params) > 1)
          => /\ lpc[Self] \in {"check_params", "raised"}
             /\ (lpc[Self] = "raised" => lerr[Self] = ErrOnlyOneLocal)
             /\ ~marker /\ modelDirs = {} /\ events = <<>>)
C12_Witness ==
  /\ lpc[Self] = "raised" /\ lerr[Self] = ErrOnlyOneLocal
  /\ Len(LocalPayload.config.params) = 2
  /\ ~marker /\ modelDirs = {} /\ events = <<>>

\* C20: create_local called with no lock marker, one parameter record and a
\* task id of the dispatch set creates the model directory, starts the
\* tracker, writes the marker and then invokes one trainer once: text
\* classification for 1 and 2, image classification for 17 and 18, dreambooth
\* for 25, the language-model trainer for 9.  The marker exists from its
\* writing until the trainer has returned and is absent after create_local
\* returned.
ExpectedTrainer(t) ==
  CASE t \in {1, 2} -> "train_text_classification"
    [] t \in {17, 18} -> "train_image_classification"
    [] t = 25 -> "train_dreambooth"
    [] t = 9 -> "train_lm"
LocalRun(t) ==
  <<"makedirs", "tracker_start", "write_marker", ExpectedTrainer(t), "remove_marker">>
StepsDone ==
  CASE lpc[Self] \in {"check_params", "makedirs"} -> 0
    [] lpc[Self] = "tracker" -> 1
    [] lpc[Self] = "write_marker" -> 2
    [] lpc[Self] = "dispatch" -> 3
    [] lpc[Self] \in {"training", "remove_marker", "raised"} -> 4
    [] lpc[Self] = "returned" -> 5
C20_LocalSuccessPath ==
  (/\ PassedMarkerCheck
   /\ Len(LocalPayload.config.params) = 1
   /\ LocalPayload.task \in DispatchSet)
  => /\ Len(events) = StepsDone
     /\ \A i \in DOMAIN events :
          events[i] = [p |-> Self, op |-> LocalRun(LocalPayload.task)[i]]
     /\ Cardinality(TrainerCalls(Self)) <= 1
     /\ (lpc[Self] \in {"dispatch", "training", "remove_marker"} => marker)
     /\ (lpc[Self] = "returned" =>
           ~marker /\ modelDirs = {LocalPayload.proj_name} /\ lerr[Self] = NoErr)
     /\ (lpc[Self] = "raised" => lerr[Self] = ErrTrainer)
C20_Witness ==
  /\ lpc[Self] = "returned" /\ LocalPayload.task = 9 /\ ~marker
  /\ Len(events) = 5 /\ events[4].op = "train_lm" /\ events[5].op = "remove_marker"

\* ---- create ----
CreateCalled == pc \in {"create_local", "returned", "raised"}
Validated(payload) ==
  /\ args.task \in DOMAIN TASKS
  /\ payload.task = TASKS[args.task]
  /\ payload.config.language \in SUPPORTED_LANGUAGES
  /\ (hub_model # None => payload.config.language = "unk")
  /\ (hub_model = None => payload.config.language = StripLower(language))

\* C13: create posts to the job-creation endpoint, or enters create_local,
\* only with a task name that resolves and a payload language of the supported
\* set; when the task does not resolve or the language is unsupported it raises
\* ValueError with nothing posted, no marker written and no trainer invoked.
\* With a hub model the payload language is unk and the language check does
\* not fail.
C13_ValidatedBeforeSubmission ==
  /\ \A i \in DOMAIN posted : Validated(posted[i])
  /\ lpayload[Self] # <<>> => Validated(lpayload[Self][1])
  /\ (CreateCalled /\ (args.task \notin DOMAIN TASKS
                       \/ (hub_model = None /\ StripLower(language) \notin SUPPORTED_LANGUAGES)))
       => /\ pc = "raised"
          /\ err = (IF args.task \notin DOMAIN TASKS THEN ErrInvalidTask ELSE ErrInvalidLanguage)
          /\ err.type = "ValueError"
          /\ posted = <<>> /\ events = <<>>
          /\ lpc[Self] = "idle" /\ lpayload[Self] = <<>>
  /\ hub_model # None => err # ErrInvalidLanguage
C13_Witness ==
  /\ pc = "raised" /\ err = ErrInvalidLanguage /\ language = "xx"
  /\ posted = <<>> /\ events = <<>> /\ ~marker

\* ---- approve ----
ProcessingReqs == {i \in DOMAIN reqs : reqs[i].path = ProcessingPath(project_id)}
ApprovalRank(l) ==
  CASE l = "start_processing" -> 0    \* Created
    [] l = "poll" -> 1                \* Processing
    [] l = "start_training" -> 2      \* Ready
    [] l = "returned" -> 3            \* Approved
    [] OTHER -> 4

\* C14: approve issues one "start data processing" request, before every
\* status poll; every status poll comes before the "start training" request,
\* after which no request is issued; and its position only moves
\* Created -> Processing -> Ready -> Approved, one state at a time (a poll may
\* stay in Processing), unless a request raises.
C14_ApprovalOrder ==
  /\ [](/\ Cardinality(ProcessingReqs) <= 1
        /\ (apc # "start_processing" => ProcessingReqs = {1})
        /\ \A i \in PollReqs : i > 1
        /\ \A i \in TrainingReqs : i = Len(reqs) /\ \A j \in PollReqs : j < i
        /\ Cardinality(ProcessingReqs) + Cardinality(PollReqs)
             + Cardinality(TrainingReqs) = Len(reqs))
  /\ [][/\ apc # "returned"
        /\ \/ apc' = "raised"
           \/ ApprovalRank(apc') = ApprovalRank(apc) + 1
           \/ apc = "poll" /\ apc' = "poll" /\ polled'[Len(polled')] # 3
        /\ (apc' = "start_training" => apc = "poll" /\ polled'[Len(polled')] = 3)]_vars
  /\ [][TrainingReqs # {} => reqs' = reqs]_vars
C14_Witness ==
  /\ apc = "returned" /\ polled = <<2, 3>>
  /\ ProcessingReqs = {1} /\ PollReqs = {2, 3} /\ TrainingReqs = {4}

\* C15: approve returns only after a poll returned 3, and once a poll has
\* returned 3 it goes on to return unless the "start training" request raises;
\* as long as no poll has returned 3 and no request has raised (whatever the
\* other statuses, 4 included) it stays in the poll loop with the next poll
\* possible, having issued no "start training" request.  The model cuts the
\* loop after MaxPolls polls; the code has no such limit.
C15_TerminatesIffThree ==
  /\ [](apc = "returned" => EndsInThree)
  /\ []((apc # "start_processing" /\ ~EndsInThree /\ aerr = NoErr)
          => apc = "poll" /\ TrainingReqs = {})
  /\ []((apc = "poll" /\ Len(polled) < MaxPolls) => ENABLED APoll)
  /\ (EndsInThree ~> (apc = "returned" \/ aerr # NoErr))
C15_Witness ==
  /\ polled = <<4, 4, 2, 4>> /\ apc = "poll" /\ aerr = NoErr /\ TrainingReqs = {}

\* C18: a request that raises ends create or approve with that exception: the
\* request is the last one issued, no request is issued twice, every status
\* poll either returned a status or ended approve, and "start training" is not
\* issued after a failed "start data processing" or status poll.
LastReq == reqs[Len(reqs)]
C18_NoRetryNoSwallow ==
  /\ [](err = ErrRemote =>
          /\ pc = "raised" /\ Len(posted) = 1 /\ json_resp = <<>> /\ ret = <<>>
          /\ apc = "idle" /\ reqs = <<>>)
  /\ [](Len(posted) <= 1)
  /\ [](Cardinality(ProcessingReqs) <= 1 /\ Cardinality(TrainingReqs) <= 1)
  /\ [](Cardinality(PollReqs) =
          Len(polled) + (IF apc = "raised" /\ LastReq.method = "GET" THEN 1 ELSE 0))
  /\ [](aerr = ErrRemote <=> apc = "raised")
  /\ [](apc = "raised" =>
          /\ (LastReq.path # TrainingPath(project_id) => TrainingReqs = {})
          /\ (LastReq.path = ProcessingPath(project_id) => Len(reqs) = 1 /\ polled = <<>>))
  /\ [][(apc = "raised" \/ pc = "raised") => UNCHANGED <<reqs, posted, apc, pc>>]_vars
C18_Witness ==
  /\ apc = "raised" /\ aerr = ErrRemote /\ polled = <<2>>
  /\ Len(reqs) = 3 /\ LastReq.method = "GET" /\ TrainingReqs = {}

\* C16: the existence check of the marker and its creation are separate
\* steps: the step that finds the marker absent does not create it, and the
\* step that writes it does not look at it.  So two processes can both pass
\* the check and be inside their trainer calls at the same time.
C16_CheckThenCreate ==
  /\ [][\A p \in Procs :
          (lpc[p] = "check_marker" /\ lpc'[p] # lpc[p]) => marker' = marker]_vars
  /\ [][\A p \in Procs :
          (lpc[p] = "write_marker" /\ lpc'[p] # lpc[p])
            => marker' /\ lpc'[p] = "dispatch" /\ lerr'[p] = NoErr]_vars
  /\ [](\A p \in Procs : lpc[p] = "write_marker" => ENABLED LWriteMarker(p))
C16_Witness ==
  /\ \A p \in Procs : lpc[p] = "training" /\ lerr[p] = NoErr
  /\ \A p \in Procs : Cardinality(TrainerCalls(p)) = 1
  /\ marker

\* ---- create_spaces ----
ExpectedOps ==
  <<"create_repo", "add_space_secret", "add_space_secret", "add_space_secret",
    "add_space_secret", "add_space_secret", "add_space_secret",
    "upload_file", "upload_file">>
ExpectedKeys ==
  <<"space_hardware", "HF_TOKEN", "AUTOTRAIN_USERNAME", "PROJECT_NAME", "PARAMS",
    "DATA_PATH", "TASK_ID", "README.md", "Dockerfile">>
CallsPerRow == Len(ExpectedOps)
ExpectedRepo(i) == "user/autotrain-proj-" \o ToString(i)

\* C17: the HfApi calls of create_spaces are, row after row, one private
\* create_repo, the six add_space_secret calls (token, username, project name,
\* the row's serialized parameters, data path, task id) and the two
\* upload_file calls (README.md, then Dockerfile), all on the row's own repo
\* id; nothing else is called, a row is finished before the next one starts,
\* and different rows have different repo ids.
C17_ProvisioningProtocol ==
  (Len(df) > 0 /\ df[1].backend \in DOMAIN spaces_backends) =>
    /\ \A j \in DOMAIN apiCalls :
         LET i == (j - 1) \div CallsPerRow
             k == ((j - 1) % CallsPerRow) + 1
             c == apiCalls[j]
         IN /\ i < Len(df)
            /\ c.op = ExpectedOps[k] /\ c.key = ExpectedKeys[k]
            /\ c.repo_id = ExpectedRepo(i)
            /\ (k = 1 => /\ c.options = "repo_type=space space_sdk=docker private=True"
                         /\ c.value = spaces_backends[df[1].backend])
            /\ (k = 2 => c.value = "hf_tok")
            /\ (k = 3 => c.value = "user")
            /\ (k = 4 => c.value = "proj")
            /\ (k = 5 => c.value = RowJson(df[i + 1]))
            /\ (k = 6 => c.value = "user/autotrain-data-proj")
            /\ (k = 7 => c.value = "1")
    /\ (spc = "returned" => Len(apiCalls) = CallsPerRow * Len(df))
    /\ (spc = "create_spaces" => Len(apiCalls) = CallsPerRow * job_idx + call_idx - 1)
    /\ \A i, j \in 0..(Len(df) - 1) : i # j => RepoId(i) # RepoId(j)
C17_Witness ==
  /\ spc = "returned" /\ Len(df) = 2 /\ Len(apiCalls) = 18
  /\ df[1].learning_rate # df[2].learning_rate
  /\ apiCalls[14].key = "PARAMS" /\ apiCalls[14].value = RowJson(df[2])
  /\ apiCalls[10].op = "create_repo" /\ apiCalls[10].repo_id = "user/autotrain-proj-1"

\* C19: a constructed Project has language and max_models set, so create
\* never fails for a missing one: in AutoTrain mode max_models is the first
\* record's num_models; otherwise language is unk, max_models is the number
\* of records and the records are as passed.
C19_PayloadFieldsDefined ==
  Constructed =>
    /\ language # "unset"
    /\ max_models # <<>>
    /\ err # ErrNoMaxModels
    /\ (param_choice = "autotrain" =>
          /\ Has(ArgRecords[1], "num_models")
          /\ max_models = <<ArgRecords[1]["num_models"]>>)
    /\ (param_choice # "autotrain" =>
          /\ language = "unk"
          /\ max_models = <<Len(ArgRecords)>>
          /\ job_params = ArgRecords)
====
